---- MODULE Spec2Model ----
(***************************************************************************)
(* A model of python/inline.py: the functions that extend the Houdini      *)
(* Object Model.  Each public function is a Python wrapper that validates  *)
(* its arguments and calls a native function of the _cpp_methods library;  *)
(* the native function calls the geometry kernel (GU_Detail).              *)
(*                                                                         *)
(* A geometry is modelled as the kernel keeps it: elements live at storage *)
(* offsets, and an index map (a list of offsets) gives every element its   *)
(* number.  Element number i is the element at offset list[i + 1].         *)
(* Attribute values and group membership are stored by offset.             *)
(***************************************************************************)
EXTENDS Integers, Sequences, FiniteSets, TLC

\* Number of storage offsets a geometry has for points, and for primitives.
MaxOffsets == 3
MaxPrims == 2

Geos == {"A", "B"}
Offsets == 0 .. (MaxOffsets - 1)
PrimOffsets == 0 .. (MaxPrims - 1)
NoOffset == -1

\* hou.geometryType
GeometryTypes == {"Points", "Primitives", "Vertices"}

AttribNames == {"a", "b"}
GroupNames == {"g", "h"}
AttribValues == {0, 1}

VARIABLES
    points,     \* points[g]: the point index map, number -> offset
    prims,      \* prims[g]: the primitive index map, number -> offset
    pos,        \* pos[g][off]: position of the point at offset off
    prPos,      \* prPos[g][off]: bounding box centre of the primitive at off
    ptAttribs,  \* ptAttribs[g][name]: [exists, vals: offset -> value]
    prAttribs,  \* prAttribs[g][name]: [exists, vals: offset -> value]
    ptGroups,   \* ptGroups[g][name]: [exists, members: set of offsets]
    prGroups,   \* prGroups[g][name]: [exists, members: set of offsets]
    call        \* the last call of a public function and how it ended

orderVars == <<points, prims>>
attribVars == <<ptAttribs, prAttribs>>
groupVars == <<ptGroups, prGroups>>
geoVars == <<points, prims, pos, prPos, ptAttribs, prAttribs, ptGroups, prGroups>>
vars == <<points, prims, pos, prPos, ptAttribs, prAttribs, ptGroups, prGroups, call>>

----------------------------------------------------------------------------
(* Python values and the outcome of a call                                 *)

PyInt(k) == [type |-> "int", val |-> k]
PyBool(b) == [type |-> "bool", val |-> IF b THEN 1 ELSE 0]
PyFloat(k) == [type |-> "float", val |-> k]
PyLong(k) == [type |-> "long", val |-> k]
PyStr(k) == [type |-> "str", val |-> k]

\* isinstance(v, int): bool is a subclass of int, long and float are not.
isinstance_int(v) == v.type \in {"int", "bool"}

\* isinstance(v, (float, int))
isinstance_float_int(v) == v.type \in {"float", "int", "bool"}

None == [type |-> "NoneType", val |-> 0]

\* The function raised exc before reaching any native function.
Raise(op, self, args, exc) ==
    /\ call' = [op |-> op, self |-> self, args |-> args, raised |-> exc,
                native |-> <<>>, result |-> None]
    /\ UNCHANGED geoVars

\* No call is under way: the caller is free to call a function.
Idle == call.op = "none"

\* The function returned result after calling the native functions natives.
Return(op, self, args, natives, result) ==
    call' = [op |-> op, self |-> self, args |-> args, raised |-> "None",
             native |-> natives, result |-> result]

----------------------------------------------------------------------------
(* Index maps                                                              *)

Range(s) == {s[i] : i \in 1 .. Len(s)}

IsInjective(s) == \A i, j \in 1 .. Len(s) : s[i] = s[j] => i = j

\* Every list of distinct offsets: the index maps a geometry can have.
IndexMaps ==
    UNION {{s \in [1 .. n -> Offsets] : IsInjective(s)} : n \in 0 .. MaxOffsets}

\* The orders in which the elements of list can be arranged.
Perms(list) ==
    {[i \in 1 .. Len(list) |-> f[list[i]]] : f \in Permutations(Range(list))}

\* The number of the element at offset off in list (GA_IndexMap::indexFromOffset).
IndexOf(list, off) == (CHOOSE i \in 1 .. Len(list) : list[i] = off) - 1

\* The offset of element number num in list (GA_IndexMap::offsetFromIndex);
\* a number outside the list has no offset.
OffsetOf(list, num) ==
    IF num \in 0 .. (Len(list) - 1) THEN list[num + 1] ELSE NoOffset

----------------------------------------------------------------------------
(* The geometry kernel's reordering of an index map.  Each operator gives  *)
(* the set of lists the kernel can leave.                                  *)

\* GU_Detail::sortPointList(axis) / sortPrimitiveList(axis): increasing
\* position along the axis; the order among equal positions is the kernel's.
sortListAlongAxis(list, position, axis) ==
    {p \in Perms(list) :
        \A i, j \in 1 .. Len(p) :
            i < j => position[p[i]][axis + 1] <= position[p[j]][axis + 1]}

\* What the kernel reads from a C float array of which it takes one entry per
\* element: the entries past the end of the array are whatever memory holds.
ReadFloatArray(arr, n) ==
    {v \in [1 .. n -> AttribValues] :
        \A i \in 1 .. n : i <= Len(arr) => v[i] = arr[i]}

\* GU_Detail::sortPointList(values) / sortPrimitiveList(values): element
\* number i is ordered by values[i].
sortListByValues(list, values) ==
    {p \in Perms(list) :
        \E v \in ReadFloatArray(values, Len(list)) :
            \A i, j \in 1 .. Len(p) :
                i < j => v[IndexOf(list, p[i]) + 1] <= v[IndexOf(list, p[j]) + 1]}

\* GU_Detail::sortPointList(seed) / sortPrimitiveList(seed): an order chosen
\* by the seed.
sortListBySeed(list, seed) == Perms(list)

\* GU_Detail::shiftPointList(offset) / shiftPrimitiveList(offset): each
\* element number gets the offset added to it, wrapping around.
shiftListBy(list, offset) ==
    {[j \in 1 .. Len(list) |-> list[((j - 1 - offset) % Len(list)) + 1]]}

\* GU_Detail::reversePointList() / reversePrimitiveList(): the highest
\* numbered becomes the lowest numbered.
reverseListOrder(list) ==
    {[j \in 1 .. Len(list) |-> list[Len(list) + 1 - j]]}

DistSq(a, b) ==
    (a[1] - b[1]) * (a[1] - b[1]) + (a[2] - b[2]) * (a[2] - b[2])
        + (a[3] - b[3]) * (a[3] - b[3])

\* GU_Detail::proximityToPointList(pos) / proximityToPrimitiveList(pos): the
\* distance to pos is the priority, element 0 is the closest.
proximityToListOrder(list, position, target) ==
    {p \in Perms(list) :
        \A i, j \in 1 .. Len(p) :
            i < j => DistSq(position[p[i]], target) <= DistSq(position[p[j]], target)}

----------------------------------------------------------------------------
(* Native functions of _cpp_methods that reorder elements                  *)

\* void sortAlongAxis(GU_Detail *gdp, int mode, int axis)
cpp_sortAlongAxis(gdp, mode, axis) ==
    IF mode # 0
    THEN /\ \E p \in sortListAlongAxis(prims[gdp], prPos[gdp], axis) :
                prims' = [prims EXCEPT ![gdp] = p]
         /\ UNCHANGED points
    ELSE /\ \E p \in sortListAlongAxis(points[gdp], pos[gdp], axis) :
                points' = [points EXCEPT ![gdp] = p]
         /\ UNCHANGED prims

\* void sortByValues(GU_Detail *gdp, int mode, float *values)
cpp_sortByValues(gdp, mode, values) ==
    IF mode # 0
    THEN /\ \E p \in sortListByValues(prims[gdp], values) :
                prims' = [prims EXCEPT ![gdp] = p]
         /\ UNCHANGED points
    ELSE /\ \E p \in sortListByValues(points[gdp], values) :
                points' = [points EXCEPT ![gdp] = p]
         /\ UNCHANGED prims

\* void sortListRandomly(GU_Detail *gdp, int mode, float seed)
cpp_sortListRandomly(gdp, mode, seed) ==
    IF mode # 0
    THEN /\ \E p \in sortListBySeed(prims[gdp], seed) :
                prims' = [prims EXCEPT ![gdp] = p]
         /\ UNCHANGED points
    ELSE /\ \E p \in sortListBySeed(points[gdp], seed) :
                points' = [points EXCEPT ![gdp] = p]
         /\ UNCHANGED prims

\* shiftList with the branches of mode exchanged.
cpp_shiftList_swapped(gdp, mode, offset) ==
    IF mode = 0
    THEN /\ \E p \in shiftListBy(prims[gdp], offset) :
                prims' = [prims EXCEPT ![gdp] = p]
         /\ UNCHANGED points
    ELSE /\ \E p \in shiftListBy(points[gdp], offset) :
                points' = [points EXCEPT ![gdp] = p]
         /\ UNCHANGED prims

\* void shiftList(GU_Detail *gdp, int mode, int offset)
cpp_shiftList(gdp, mode, offset) ==
    IF mode # 0
    THEN /\ \E p \in shiftListBy(prims[gdp], offset) :
                prims' = [prims EXCEPT ![gdp] = p]
         /\ UNCHANGED points
    ELSE /\ \E p \in shiftListBy(points[gdp], offset) :
                points' = [points EXCEPT ![gdp] = p]
         /\ UNCHANGED prims

\* reverseList that reverses both lists whatever the mode.
cpp_reverseList_both(gdp, mode) ==
    /\ \E p \in reverseListOrder(prims[gdp]) : prims' = [prims EXCEPT ![gdp] = p]
    /\ \E p \in reverseListOrder(points[gdp]) : points' = [points EXCEPT ![gdp] = p]

\* reverseList that moves the last element to the front.
cpp_reverseList_rotate(gdp, mode) ==
    IF mode # 0
    THEN /\ \E p \in shiftListBy(prims[gdp], 1) : prims' = [prims EXCEPT ![gdp] = p]
         /\ UNCHANGED points
    ELSE /\ \E p \in shiftListBy(points[gdp], 1) : points' = [points EXCEPT ![gdp] = p]
         /\ UNCHANGED prims

\* void reverseList(GU_Detail *gdp, int mode)
cpp_reverseList(gdp, mode) ==
    IF mode # 0
    THEN /\ \E p \in reverseListOrder(prims[gdp]) :
                prims' = [prims EXCEPT ![gdp] = p]
         /\ UNCHANGED points
    ELSE /\ \E p \in reverseListOrder(points[gdp]) :
                points' = [points EXCEPT ![gdp] = p]
         /\ UNCHANGED prims

\* void proximityToList(GU_Detail *gdp, int mode, const UT_Vector3D *point)
cpp_proximityToList(gdp, mode, point) ==
    IF mode # 0
    THEN /\ \E p \in proximityToListOrder(prims[gdp], prPos[gdp], point) :
                prims' = [prims EXCEPT ![gdp] = p]
         /\ UNCHANGED points
    ELSE /\ \E p \in proximityToListOrder(points[gdp], pos[gdp], point) :
                points' = [points EXCEPT ![gdp] = p]
         /\ UNCHANGED prims

\* What a reordering leaves alone.
OrderFrame == UNCHANGED <<pos, prPos, ptAttribs, prAttribs, ptGroups, prGroups>>

----------------------------------------------------------------------------
(* Public functions that reorder elements (hou.Geometry methods)           *)

\* ctypes.c_float array of the values, entry by entry.
_buildCFloatArray(values) == [i \in 1 .. Len(values) |-> values[i]]

\* sortAlongAxis that looks at geometry_type before it looks at axis.
sortAlongAxis_typeFirst(self, geometry_type, axis) ==
    LET args == [geometry_type |-> geometry_type, axis |-> axis] IN
    IF geometry_type \notin {"Points", "Primitives"}
    THEN Raise("sortAlongAxis", self, args, "OperationFailed")
    ELSE IF axis \notin {0, 1, 2}
    THEN Raise("sortAlongAxis", self, args, "ValueError")
    ELSE /\ cpp_sortAlongAxis(self, IF geometry_type = "Points" THEN 0 ELSE 1, axis)
         /\ OrderFrame
         /\ Return("sortAlongAxis", self, args, <<"sortAlongAxis">>, None)

\* hou.Geometry.sortAlongAxis(geometry_type, axis)
sortAlongAxis(self, geometry_type, axis) ==
    LET args == [geometry_type |-> geometry_type, axis |-> axis] IN
    IF axis \notin {0, 1, 2}
    THEN Raise("sortAlongAxis", self, args, "ValueError")
    ELSE IF geometry_type = "Points"
    THEN /\ cpp_sortAlongAxis(self, 0, axis)
         /\ OrderFrame
         /\ Return("sortAlongAxis", self, args, <<"sortAlongAxis">>, None)
    ELSE IF geometry_type = "Primitives"
    THEN /\ cpp_sortAlongAxis(self, 1, axis)
         /\ OrderFrame
         /\ Return("sortAlongAxis", self, args, <<"sortAlongAxis">>, None)
    ELSE Raise("sortAlongAxis", self, args, "OperationFailed")

\* sortByValues that only rejects a list longer than the number of elements.
sortByValues_tooLongOnly(self, geometry_type, values) ==
    LET args == [geometry_type |-> geometry_type, values |-> values] IN
    IF geometry_type = "Points"
    THEN IF Len(values) > Len(points[self])
         THEN Raise("sortByValues", self, args, "OperationFailed")
         ELSE /\ cpp_sortByValues(self, 0, _buildCFloatArray(values))
              /\ OrderFrame
              /\ Return("sortByValues", self, args, <<"sortByValues">>, None)
    ELSE IF geometry_type = "Primitives"
    THEN IF Len(values) > Len(prims[self])
         THEN Raise("sortByValues", self, args, "OperationFailed")
         ELSE /\ cpp_sortByValues(self, 1, _buildCFloatArray(values))
              /\ OrderFrame
              /\ Return("sortByValues", self, args, <<"sortByValues">>, None)
    ELSE Raise("sortByValues", self, args, "OperationFailed")

\* hou.Geometry.sortByValues(geometry_type, values)
sortByValues(self, geometry_type, values) ==
    LET args == [geometry_type |-> geometry_type, values |-> values] IN
    IF geometry_type = "Points"
    THEN IF Len(values) # Len(points[self])
         THEN Raise("sortByValues", self, args, "OperationFailed")
         ELSE /\ cpp_sortByValues(self, 0, _buildCFloatArray(values))
              /\ OrderFrame
              /\ Return("sortByValues", self, args, <<"sortByValues">>, None)
    ELSE IF geometry_type = "Primitives"
    THEN IF Len(values) # Len(prims[self])
         THEN Raise("sortByValues", self, args, "OperationFailed")
         ELSE /\ cpp_sortByValues(self, 1, _buildCFloatArray(values))
              /\ OrderFrame
              /\ Return("sortByValues", self, args, <<"sortByValues">>, None)
    ELSE Raise("sortByValues", self, args, "OperationFailed")

\* hou.Geometry.sortRandomly(geometry_type, seed=0.0)
sortRandomly(self, geometry_type, seed) ==
    LET args == [geometry_type |-> geometry_type, seed |-> seed] IN
    IF ~isinstance_float_int(seed)
    THEN Raise("sortRandomly", self, args, "TypeError")
    ELSE IF geometry_type = "Points"
    THEN /\ cpp_sortListRandomly(self, 0, seed.val)
         /\ OrderFrame
         /\ Return("sortRandomly", self, args, <<"sortListRandomly">>, None)
    ELSE IF geometry_type = "Primitives"
    THEN /\ cpp_sortListRandomly(self, 1, seed.val)
         /\ OrderFrame
         /\ Return("sortRandomly", self, args, <<"sortListRandomly">>, None)
    ELSE Raise("sortRandomly", self, args, "OperationFailed")

\* hou.Geometry.shiftElements(geometry_type, offset=0)
shiftElements(self, geometry_type, offset) ==
    LET args == [geometry_type |-> geometry_type, offset |-> offset] IN
    IF ~isinstance_int(offset)
    THEN Raise("shiftElements", self, args, "TypeError")
    ELSE IF geometry_type = "Points"
    THEN /\ cpp_shiftList(self, 0, offset.val)
         /\ OrderFrame
         /\ Return("shiftElements", self, args, <<"shiftList">>, None)
    ELSE IF geometry_type = "Primitives"
    THEN /\ cpp_shiftList(self, 1, offset.val)
         /\ OrderFrame
         /\ Return("shiftElements", self, args, <<"shiftList">>, None)
    ELSE Raise("shiftElements", self, args, "OperationFailed")

\* hou.Geometry.reverseSort(geometry_type)
reverseSort(self, geometry_type) ==
    LET args == [geometry_type |-> geometry_type] IN
    IF geometry_type = "Points"
    THEN /\ cpp_reverseList(self, 0)
         /\ OrderFrame
         /\ Return("reverseSort", self, args, <<"reverseList">>, None)
    ELSE IF geometry_type = "Primitives"
    THEN /\ cpp_reverseList(self, 1)
         /\ OrderFrame
         /\ Return("reverseSort", self, args, <<"reverseList">>, None)
    ELSE Raise("reverseSort", self, args, "OperationFailed")

\* hou.Geometry.sortByProximityToPosition(geometry_type, pos)
sortByProximityToPosition(self, geometry_type, position) ==
    LET args == [geometry_type |-> geometry_type, pos |-> position] IN
    IF geometry_type = "Points"
    THEN /\ cpp_proximityToList(self, 0, position)
         /\ OrderFrame
         /\ Return("sortByProximityToPosition", self, args, <<"proximityToList">>, None)
    ELSE IF geometry_type = "Primitives"
    THEN /\ cpp_proximityToList(self, 1, position)
         /\ OrderFrame
         /\ Return("sortByProximityToPosition", self, args, <<"proximityToList">>, None)
    ELSE Raise("sortByProximityToPosition", self, args, "OperationFailed")

----------------------------------------------------------------------------
(* Creating points                                                         *)

\* The offsets GU_Detail::appendPointOffset() can hand out in count calls in a
\* row: distinct offsets that hold no point of the list.
AppendChoices(list, count) ==
    {s \in [1 .. count -> Offsets \ Range(list)] : IsInjective(s)}

\* The geometry after appendPointOffset() has added points at the offsets offs:
\* each is given the next number, the origin as position, and the default
\* value of every attribute.
appendPoints(gdp, offs) ==
    /\ points' = [points EXCEPT ![gdp] = @ \o offs]
    /\ pos' = [pos EXCEPT ![gdp] =
                  [o \in Offsets |-> IF o \in Range(offs) THEN <<0, 0, 0>> ELSE @[o]]]
    /\ ptAttribs' = [ptAttribs EXCEPT ![gdp] =
                  [n \in AttribNames |->
                      [@[n] EXCEPT !.vals =
                          [o \in Offsets |-> IF o \in Range(offs) THEN 0 ELSE @[o]]]]]
    /\ UNCHANGED <<prims, prPos, prAttribs, ptGroups, prGroups>>

\* createPoints that returns the offset of each new point, not its number.
cpp_createPoints_offsets(gdp, count, point_nums) ==
    \E offs \in AppendChoices(points[gdp], count) :
        /\ appendPoints(gdp, offs)
        /\ point_nums = offs

\* IntArray createPoints(GU_Detail *gdp, int count); point_nums is the array
\* it returns.
cpp_createPoints(gdp, count, point_nums) ==
    \E offs \in AppendChoices(points[gdp], count) :
        /\ appendPoints(gdp, offs)
        /\ point_nums =
            [i \in 1 .. Len(offs) |->
                IndexOf(points[gdp] \o SubSeq(offs, 1, i), offs[i])]

\* int createPoint(GU_Detail *gdp, UT_Vector3D *position); point_num is the
\* number it returns.
cpp_createPoint(gdp, position, point_num) ==
    \E offs \in AppendChoices(points[gdp], 1) :
        /\ points' = [points EXCEPT ![gdp] = @ \o offs]
        /\ pos' = [pos EXCEPT ![gdp][offs[1]] = position]
        /\ ptAttribs' = [ptAttribs EXCEPT ![gdp] =
                  [n \in AttribNames |-> [@[n] EXCEPT !.vals[offs[1]] = 0]]]
        /\ UNCHANGED <<prims, prPos, prAttribs, ptGroups, prGroups>>
        /\ point_num = IndexOf(points[gdp] \o offs, offs[1])

\* The numbers of set S in increasing order.
SortedSeq(S) ==
    CHOOSE s \in [1 .. Cardinality(S) -> S] :
        \A i, j \in 1 .. Cardinality(S) : i < j => s[i] < s[j]

\* hou.Geometry.globPoints(pattern) for a pattern of numbers separated by
\* spaces: the points of the geometry that a number of the pattern names, each
\* once, in the order of their numbers.  A point is held by its number.
globPoints(list, pattern) ==
    SortedSeq({pattern[i] : i \in 1 .. Len(pattern)} \cap (0 .. (Len(list) - 1)))

\* _getPointsFromList(geometry, point_list); list is the geometry's point
\* index map.
_getPointsFromList(list, point_list) ==
    IF point_list = <<>>
    THEN <<>>
    ELSE LET point_str == [i \in 1 .. Len(point_list) |-> point_list[i]]
         IN  globPoints(list, point_str)

\* The arrays of point numbers a native function can return.
IntArrays == UNION {[1 .. n -> 0 .. (MaxOffsets - 1)] : n \in 0 .. MaxOffsets}

\* createPoints that lets a count of 0 through.
createPoints_zeroAllowed(self, count) ==
    LET args == [count |-> count] IN
    IF count < 0
    THEN Raise("createPoints", self, args, "OperationFailed")
    ELSE \E result \in IntArrays :
            /\ cpp_createPoints(self, count, result)
            /\ Return("createPoints", self, args, <<"createPoints">>,
                      _getPointsFromList(points'[self], result))

\* hou.Geometry.createPoints(count)
createPoints(self, count) ==
    LET args == [count |-> count] IN
    IF count <= 0
    THEN Raise("createPoints", self, args, "OperationFailed")
    ELSE \E result \in IntArrays :
            /\ cpp_createPoints(self, count, result)
            /\ Return("createPoints", self, args, <<"createPoints">>,
                      _getPointsFromList(points'[self], result))

\* hou.Geometry.createPoint(position=None): the new point, held by its number.
createPoint(self, position) ==
    LET args == [position |-> position]
        vector == IF position.type = "NoneType" THEN <<0, 0, 0>> ELSE position.val
    IN  \E result \in 0 .. (MaxOffsets - 1) :
            /\ cpp_createPoint(self, vector, result)
            /\ Return("createPoint", self, args, <<"createPoint">>, result)

----------------------------------------------------------------------------
(* Copying attribute values between elements                               *)

\* A hou.Point or hou.Prim: the geometry it belongs to and its number.
Element(g, num) == [geo |-> g, num |-> num]

\* A hou.Attrib: the geometry it belongs to, its hou.attribType and its name.
Attrib(g, type, name) == [geo |-> g, type |-> type, name |-> name]

\* hou.Geometry.sopNode(): every geometry is the output of its own node.
sopNode(g) == [node |-> g]

\* ctypes.c_char_p array of the strings, entry by entry.
_buildCStringArray(values) == [i \in 1 .. Len(values) |-> values[i]]

\* The offset a native function gets for element number num of list.  For a
\* number that names no element of the list the kernel reads outside its
\* index map: any offset, or none, comes back.
LookupOffset(list, num, offsets) ==
    IF num \in 0 .. (Len(list) - 1) THEN {list[num + 1]} ELSE offsets \cup {NoOffset}

\* GA_AttributeRefMap::copyValue onto the attribute table dest of the
\* destination geometry: for every mapped name the value at destOff becomes
\* the source's value at srcOff; a mapped attribute the destination lacked has
\* been added with default values.  Nothing is stored at no offset.
copyValue(dest, src, mapped, destOff, srcOff) ==
    [n \in AttribNames |->
        IF n \in mapped
        THEN [exists |-> TRUE,
              vals |-> IF destOff = NoOffset
                       THEN dest[n].vals
                       ELSE [dest[n].vals EXCEPT ![destOff] = src[n].vals[srcOff]]]
        ELSE dest[n]]

\* void copyPointAttributeValues(GU_Detail *dest_gdp, int dest_pt,
\*     const GU_Detail *src_gdp, int src_pt, const char **attribute_names,
\*     int num_attribs)
cpp_copyPointAttributeValues(dest_gdp, dest_pt, src_gdp, src_pt, attribute_names, num_attribs) ==
    LET mapped == {attribute_names[i] : i \in
                      {k \in 1 .. num_attribs :
                          ptAttribs[src_gdp][attribute_names[k]].exists}}
        srcOff == OffsetOf(points[src_gdp], src_pt)
    IN  /\ \E destOff \in LookupOffset(points[src_gdp], dest_pt, Offsets) :
            ptAttribs' = [ptAttribs EXCEPT ![dest_gdp] =
                copyValue(@, ptAttribs[src_gdp], mapped, destOff, srcOff)]
        /\ UNCHANGED <<points, prims, pos, prPos, prAttribs, ptGroups, prGroups>>

\* void copyPrimAttributeValues(GU_Detail *dest_gdp, int dest_pr,
\*     const GU_Detail *src_gdp, int src_pr, const char **attribute_names,
\*     int num_attribs)
cpp_copyPrimAttributeValues(dest_gdp, dest_pr, src_gdp, src_pr, attribute_names, num_attribs) ==
    LET mapped == {attribute_names[i] : i \in
                      {k \in 1 .. num_attribs :
                          prAttribs[src_gdp][attribute_names[k]].exists}}
        srcOff == OffsetOf(prims[src_gdp], src_pr)
    IN  /\ \E destOff \in LookupOffset(prims[src_gdp], dest_pr, PrimOffsets) :
            prAttribs' = [prAttribs EXCEPT ![dest_gdp] =
                copyValue(@, prAttribs[src_gdp], mapped, destOff, srcOff)]
        /\ UNCHANGED <<points, prims, pos, prPos, ptAttribs, ptGroups, prGroups>>

\* The names of the attributes of the list that are of the given type and
\* belong to the source geometry.
AttribNamesOf(attributes, type, source_geometry) ==
    LET Keep(attrib) ==
            /\ attrib.type = type
            /\ sopNode(attrib.geo) = sopNode(source_geometry)
        kept == SelectSeq(attributes, Keep)
    IN  [i \in 1 .. Len(kept) |-> kept[i].name]

\* hou.Point.copyAttributeValues(source_point, attributes)
copyPointAttributeValues(self, source_point, attributes) ==
    LET args == [source |-> source_point, attributes |-> attributes]
        source_geometry == source_point.geo
        attrib_names == AttribNamesOf(attributes, "Point", source_geometry)
        arr == _buildCStringArray(attrib_names)
    IN  /\ cpp_copyPointAttributeValues(self.geo, self.num, source_geometry,
                                        source_point.num, arr, Len(attrib_names))
        /\ Return("copyPointAttributeValues", self, args,
                  <<"copyPointAttributeValues">>, None)

\* hou.Prim.copyAttributeValues(source_prim, attributes)
copyPrimAttributeValues(self, source_prim, attributes) ==
    LET args == [source |-> source_prim, attributes |-> attributes]
        source_geometry == source_prim.geo
        attrib_names == AttribNamesOf(attributes, "Prim", source_geometry)
        arr == _buildCStringArray(attrib_names)
    IN  /\ cpp_copyPrimAttributeValues(self.geo, self.num, source_geometry,
                                       source_prim.num, arr, Len(attrib_names))
        /\ Return("copyPrimAttributeValues", self, args,
                  <<"copyPrimAttributeValues">>, None)

----------------------------------------------------------------------------
(* Group membership                                                        *)

\* A hou.PointGroup (type "Point") or hou.PrimGroup (type "Prim"): the
\* geometry it belongs to and its name.
Group(g, type, name) == [geo |-> g, type |-> type, name |-> name]

\* isinstance(group, hou.PrimGroup)
isinstance_PrimGroup(group) == group.type = "Prim"

\* GA_ElementGroup::toggleOffset(offset): the element at the offset leaves the
\* group if it is in it and joins it if it is not.  Nothing is toggled at no
\* offset.
toggleOffset(group, elem_offset) ==
    IF elem_offset = NoOffset
    THEN group
    ELSE [group EXCEPT !.members =
            IF elem_offset \in @ THEN @ \ {elem_offset} ELSE @ \cup {elem_offset}]

\* GA_ElementGroup::toggleEntries(): every element of the geometry not in the
\* group is added and every element in it is removed.
toggleAllEntries(group, list) ==
    [group EXCEPT !.members = Range(list) \ @]

\* GA_ElementGroup::setEntries(): every element of the geometry is added.
setAllEntries(group, list) ==
    [group EXCEPT !.members = Range(list)]

\* toggleMembership that takes the element number for the element's offset.
cpp_toggleMembership_byNumber(gdp, group_name, group_type, elem_num) ==
    IF group_type # 0
    THEN /\ prGroups' = [prGroups EXCEPT ![gdp][group_name] = toggleOffset(@, elem_num)]
         /\ UNCHANGED ptGroups
    ELSE /\ ptGroups' = [ptGroups EXCEPT ![gdp][group_name] = toggleOffset(@, elem_num)]
         /\ UNCHANGED prGroups

\* void toggleMembership(GU_Detail *gdp, const char *group_name,
\*     int group_type, int elem_num)
cpp_toggleMembership(gdp, group_name, group_type, elem_num) ==
    IF group_type # 0
    THEN /\ \E elem_offset \in LookupOffset(prims[gdp], elem_num, PrimOffsets) :
                prGroups' = [prGroups EXCEPT ![gdp][group_name] =
                                toggleOffset(@, elem_offset)]
         /\ UNCHANGED ptGroups
    ELSE /\ \E elem_offset \in LookupOffset(points[gdp], elem_num, Offsets) :
                ptGroups' = [ptGroups EXCEPT ![gdp][group_name] =
                                toggleOffset(@, elem_offset)]
         /\ UNCHANGED prGroups

\* void setEntries(GU_Detail *gdp, const char *group_name, int group_type)
cpp_setEntries(gdp, group_name, group_type) ==
    IF group_type # 0
    THEN /\ prGroups' = [prGroups EXCEPT ![gdp][group_name] =
                            setAllEntries(@, prims[gdp])]
         /\ UNCHANGED ptGroups
    ELSE /\ ptGroups' = [ptGroups EXCEPT ![gdp][group_name] =
                            setAllEntries(@, points[gdp])]
         /\ UNCHANGED prGroups

\* void toggleEntries(GU_Detail *gdp, const char *group_name, int group_type)
cpp_toggleEntries(gdp, group_name, group_type) ==
    IF group_type # 0
    THEN /\ prGroups' = [prGroups EXCEPT ![gdp][group_name] =
                            toggleAllEntries(@, prims[gdp])]
         /\ UNCHANGED ptGroups
    ELSE /\ ptGroups' = [ptGroups EXCEPT ![gdp][group_name] =
                            toggleAllEntries(@, points[gdp])]
         /\ UNCHANGED prGroups

\* What a change of group membership leaves alone.
GroupFrame == UNCHANGED <<points, prims, pos, prPos, ptAttribs, prAttribs>>

\* hou.PointGroup.toggle(point)
togglePoint(self, point) ==
    LET args == [point |-> point]
        geometry == self.geo
    IN  /\ cpp_toggleMembership(geometry, self.name, 0, point.num)
        /\ GroupFrame
        /\ Return("togglePoint", self, args, <<"toggleMembership">>, None)

\* hou.PrimGroup.toggle(prim)
togglePrim(self, prim) ==
    LET args == [prim |-> prim]
        geometry == self.geo
    IN  /\ cpp_toggleMembership(geometry, self.name, 1, prim.num)
        /\ GroupFrame
        /\ Return("togglePrim", self, args, <<"toggleMembership">>, None)

\* toggleEntries that calls the native setEntries.
toggleEntries_set(self) ==
    LET geometry == self.geo
        group_type == IF isinstance_PrimGroup(self) THEN 1 ELSE 0
    IN  /\ cpp_setEntries(geometry, self.name, group_type)
        /\ GroupFrame
        /\ Return("toggleEntries", self, <<>>, <<"setEntries">>, None)

\* hou.PointGroup.toggleEntries() and hou.PrimGroup.toggleEntries()
toggleEntries(self) ==
    LET geometry == self.geo
        group_type == IF isinstance_PrimGroup(self) THEN 1 ELSE 0
    IN  /\ cpp_toggleEntries(geometry, self.name, group_type)
        /\ GroupFrame
        /\ Return("toggleEntries", self, <<>>, <<"toggleEntries">>, None)

\* GU_Detail::createElementGroup(owner, name) followed by
\* GA_ElementGroup::copyMembership(group): the new group holds the elements
\* the given group holds.
copyMembership(group) == [exists |-> TRUE, members |-> group.members]

\* copyGroup that creates the new group and copies no membership.
cpp_copyGroup_empty(gdp, group_type, group_name, new_group_name) ==
    IF group_type # 0
    THEN /\ prGroups' = [prGroups EXCEPT ![gdp][new_group_name] =
                            [exists |-> TRUE, members |-> {}]]
         /\ UNCHANGED ptGroups
    ELSE /\ ptGroups' = [ptGroups EXCEPT ![gdp][new_group_name] =
                            [exists |-> TRUE, members |-> {}]]
         /\ UNCHANGED prGroups

\* void copyGroup(GU_Detail *gdp, int group_type, const char *group_name,
\*     const char *new_group_name)
cpp_copyGroup(gdp, group_type, group_name, new_group_name) ==
    IF group_type # 0
    THEN /\ prGroups' = [prGroups EXCEPT ![gdp][new_group_name] =
                            copyMembership(prGroups[gdp][group_name])]
         /\ UNCHANGED ptGroups
    ELSE /\ ptGroups' = [ptGroups EXCEPT ![gdp][new_group_name] =
                            copyMembership(ptGroups[gdp][group_name])]
         /\ UNCHANGED prGroups

\* hou.Geometry.findPrimGroup(name) and hou.Geometry.findPointGroup(name),
\* taken for their truth value: a group object if there is one, else None.
findPrimGroup(geometry, name) == prGroups[geometry][name].exists
findPointGroup(geometry, name) == ptGroups[geometry][name].exists

\* hou.PointGroup.copy(new_group_name) and hou.PrimGroup.copy(new_group_name)
copyGroup(self, new_group_name) ==
    LET args == [new_group_name |-> new_group_name]
        geometry == self.geo
        group_type == IF isinstance_PrimGroup(self) THEN 1 ELSE 0
        new_group_exists ==
            IF isinstance_PrimGroup(self)
            THEN findPrimGroup(geometry, new_group_name)
            ELSE findPointGroup(geometry, new_group_name)
    IN  IF new_group_name = self.name
        THEN Raise("copyGroup", self, args, "OperationFailed")
        ELSE IF new_group_exists
        THEN Raise("copyGroup", self, args, "OperationFailed")
        ELSE /\ cpp_copyGroup(geometry, group_type, self.name, new_group_name)
             /\ GroupFrame
             /\ Return("copyGroup", self, args, <<"copyGroup">>, None)

----------------------------------------------------------------------------
(* Setting a string attribute to one value                               *)

\* GU_Detail::findStringTuple(owner, attrib_name) on the attribute table of
\* the owner, isInvalid() negated: there is an attribute of the name and it
\* holds strings.
findStringTuple(table, attrib_name) ==
    /\ attrib_name \in DOMAIN table
    /\ table[attrib_name].exists
    /\ table[attrib_name].dataType = "String"

\* GU_Detail::findPointGroup(group_name) and findPrimitiveGroup(group_name) on
\* the group table of the class: whether a group of the name is found.  No
\* group has the empty name.
findElementGroup(table, group_name) ==
    /\ group_name \in DOMAIN table
    /\ table[group_name].exists

\* GA_AIFSharedStringTuple::setString(attrib, range, value, 0): the elements
\* of the range get the value.
setString(attrib, range, value) ==
    [attrib EXCEPT !.vals = [o \in DOMAIN @ |-> IF o \in range THEN value ELSE @[o]]]

\* setSharedPointStringAttrib that also returns 1 when no group of the name
\* is found.
cpp_setSharedPointStringAttrib_groupChecked(gdp, attrib_name, value, group_name, result) ==
    IF ~findStringTuple(ptAttribs[gdp], attrib_name)
            \/ ~findElementGroup(ptGroups[gdp], group_name)
    THEN /\ result = 1
         /\ UNCHANGED ptAttribs
    ELSE /\ ptAttribs' = [ptAttribs EXCEPT ![gdp][attrib_name] =
            setString(@, ptGroups[gdp][group_name].members, value)]
         /\ result = 0

\* int setSharedPointStringAttrib(GU_Detail *gdp, const char *attrib_name,
\*     const char *value, const char *group_name=0)
cpp_setSharedPointStringAttrib(gdp, attrib_name, value, group_name, result) ==
    IF ~findStringTuple(ptAttribs[gdp], attrib_name)
    THEN /\ result = 1
         /\ UNCHANGED ptAttribs
    ELSE /\ ptAttribs' = [ptAttribs EXCEPT ![gdp][attrib_name] =
            IF findElementGroup(ptGroups[gdp], group_name)
            THEN setString(@, ptGroups[gdp][group_name].members, value)
            ELSE setString(@, Range(points[gdp]), value)]
         /\ result = 0

\* int setSharedPrimStringAttrib(GU_Detail *gdp, const char *attrib_name,
\*     const char *value, const char *group_name=0)
cpp_setSharedPrimStringAttrib(gdp, attrib_name, value, group_name, result) ==
    IF ~findStringTuple(prAttribs[gdp], attrib_name)
    THEN /\ result = 1
         /\ UNCHANGED prAttribs
    ELSE /\ prAttribs' = [prAttribs EXCEPT ![gdp][attrib_name] =
            IF findElementGroup(prGroups[gdp], group_name)
            THEN setString(@, prGroups[gdp][group_name].members, value)
            ELSE setString(@, Range(prims[gdp]), value)]
         /\ result = 0

\* "if group:" for a group argument: None is false, a group object is true.
bool_group(group) == group # None

\* The function called the native function native, which returned sentinel,
\* and raised hou.OperationFailed if the sentinel is 1.
ReturnChecked(op, self, args, native, sentinel) ==
    call' = [op |-> op, self |-> self, args |-> args,
             raised |-> IF sentinel = 1 THEN "OperationFailed" ELSE "None",
             native |-> <<native>>, result |-> None, sentinel |-> sentinel]

\* hou.Geometry.setSharedPointStringAttrib(attribute, value, group=None)
setSharedPointStringAttrib(self, attribute, value, group) ==
    LET args == [attribute |-> attribute, value |-> value, group |-> group]
        group_name == IF bool_group(group) THEN group.name ELSE ""
    IN  \E result \in {0, 1} :
            /\ cpp_setSharedPointStringAttrib(self, attribute.name, value, group_name, result)
            /\ UNCHANGED <<points, prims, pos, prPos, prAttribs, ptGroups, prGroups>>
            /\ ReturnChecked("setSharedPointStringAttrib", self, args,
                             "setSharedPointStringAttrib", result)

\* hou.Geometry.setSharedPrimStringAttrib(attribute, value, group=None)
setSharedPrimStringAttrib(self, attribute, value, group) ==
    LET args == [attribute |-> attribute, value |-> value, group |-> group]
        group_name == IF bool_group(group) THEN group.name ELSE ""
    IN  \E result \in {0, 1} :
            /\ cpp_setSharedPrimStringAttrib(self, attribute.name, value, group_name, result)
            /\ UNCHANGED <<points, prims, pos, prPos, ptAttribs, ptGroups, prGroups>>
            /\ ReturnChecked("setSharedPrimStringAttrib", self, args,
                             "setSharedPrimStringAttrib", result)

(* Multiparm parameters                                                    *)

\* A hou.Parm or hou.ParmTuple: its name, the folder type of its parameter
\* template ("None" for a template that is no folder) and, as the kernel
\* holds them for its node, the number of multiparm blocks and the number of
\* parameters in each block.
Parm(name, folderType, numItems, instancesPerItem) ==
    [name |-> name, folderType |-> folderType,
     numItems |-> numItems, instancesPerItem |-> instancesPerItem]

\* hou.Parm.isMultiParm() and hou.ParmTuple.isMultiParm()
isMultiParm(self) ==
    self.folderType \in {"MultiparmBlock", "ScrollingMultiparmBlock", "TabbedMultiparmBlock"}

\* PRM_Parm::getMultiParm(k)->getToken(): the name of the k-th parameter of
\* the multiparm, counted from 0.
getToken(k) == <<"p0", "p1", "p2", "p3", "p4", "p5", "p6", "p7", "p8">>[k + 1]

\* StringTuple getMultiParmInstances(OP_Node *node, const char *parm_name):
\* the names of the parameters block by block; an empty block, and no block
\* at all, are given as one empty string.
cpp_getMultiParmInstances(items, instances) ==
    LET result(i) == [j \in 1 .. instances |-> getToken((i - 1) * instances + (j - 1))]
        blocks == [i \in 1 .. items |-> IF instances = 0 THEN <<"">> ELSE result(i)]
    IN  IF items = 0 THEN << <<"">> >> ELSE blocks

\* hou.Node.parm(parm_name): the parameter, held by its name.
node_parm(parm_name) == [parm |-> parm_name]

\* hou.Parm.eval(): every parameter evaluates to the length of its name.
parm_eval(parm) == IF parm.parm = "" THEN 0 ELSE 2

\* The outcome of a call made inside a function: the exception raised, the
\* native functions called and the result.
Outcome(raised, natives, result) ==
    [raised |-> raised, native |-> natives, result |-> result]

\* The function ends as the call made inside it has ended.
ReturnOutcome(op, self, args, outcome) ==
    /\ call' = [op |-> op, self |-> self, args |-> args, raised |-> outcome.raised,
                native |-> outcome.native, result |-> outcome.result]
    /\ UNCHANGED geoVars

\* getMultiParmInstances(self): the parameters of each block, without the
\* empty names.
getMultiParmInstances_outcome(self) ==
    IF ~isMultiParm(self)
    THEN Outcome("OperationFailed", <<>>, None)
    ELSE LET result == cpp_getMultiParmInstances(self.numItems, self.instancesPerItem)
             parms(block) == [k \in 1 .. Len(SelectSeq(block, LAMBDA n : n # "")) |->
                                node_parm(SelectSeq(block, LAMBDA n : n # "")[k])]
             multi_parms == [i \in 1 .. Len(result) |-> parms(result[i])]
         IN  Outcome("None", <<"getMultiParmInstances">>, multi_parms)

\* hou.Parm.getMultiParmInstances() and hou.ParmTuple.getMultiParmInstances()
getMultiParmInstances(self) ==
    ReturnOutcome("getMultiParmInstances", self, <<>>, getMultiParmInstances_outcome(self))

\* getMultiParmInstanceValues that asks the native function for the names
\* itself before it calls getMultiParmInstances.
getMultiParmInstanceValues_twice(self) ==
    LET parms == getMultiParmInstances_outcome(self)
    IN  ReturnOutcome("getMultiParmInstanceValues", self, <<>>,
            Outcome(parms.raised, <<"getMultiParmInstances">> \o parms.native, None))

\* hou.Parm.getMultiParmInstanceValues() and
\* hou.ParmTuple.getMultiParmInstanceValues()
getMultiParmInstanceValues(self) ==
    IF ~isMultiParm(self)
    THEN Raise("getMultiParmInstanceValues", self, <<>>, "OperationFailed")
    ELSE LET parms == getMultiParmInstances_outcome(self)
             values(block) == [k \in 1 .. Len(block) |-> parm_eval(block[k])]
             all_values == [i \in 1 .. Len(parms.result) |-> values(parms.result[i])]
         IN  IF parms.raised # "None"
             THEN ReturnOutcome("getMultiParmInstanceValues", self, <<>>, parms)
             ELSE ReturnOutcome("getMultiParmInstanceValues", self, <<>>,
                                Outcome("None", parms.native, all_values))

----------------------------------------------------------------------------
(* Vectors                                                                 *)

\* hou.Vector3.dot(vector)
dot(u, v) == u[1] * v[1] + u[2] * v[2] + u[3] * v[3]

\* hou.Vector3.normalized(): the vector divided by its length, held as the
\* vector and the square of the length it is divided by; the zero vector
\* stays as it is.
normalized(v) ==
    IF dot(v, v) = 0 THEN [vec |-> v, lengthSq |-> 1] ELSE [vec |-> v, lengthSq |-> dot(v, v)]

\* componentAlong(self, vector): self . vector / |vector|, held as the
\* numerator and the square of the denominator.
componentAlong_value(self, vector) ==
    [num |-> dot(self, normalized(vector).vec), lengthSq |-> normalized(vector).lengthSq]

\* hou.Vector3.componentAlong(vector)
componentAlong(self, vector) ==
    ReturnOutcome("componentAlong", self, [vector |-> vector],
                  Outcome("None", <<>>, componentAlong_value(self, vector)))

\* hou.Vector3.project(vector): vector (self . vector) / |vector|^2, held as
\* the numerators and the denominator.
project(self, vector) ==
    LET args == [vector |-> vector]
        unit == normalized(vector)
        along == componentAlong_value(self, vector)
    IN  IF vector = <<0, 0, 0>>
        THEN Raise("project", self, args, "OperationFailed")
        ELSE ReturnOutcome("project", self, args,
                Outcome("None", <<>>,
                    [vec |-> [i \in 1 .. 3 |-> unit.vec[i] * along.num],
                     den |-> unit.lengthSq]))

----------------------------------------------------------------------------
(* Initial geometries and the arguments the functions are called with      *)

\* A geometry without attributes or groups.
NoAttribs == [n \in AttribNames |-> [exists |-> FALSE, vals |-> [o \in Offsets |-> 0]]]
NoPrimAttribs ==
    [n \in AttribNames |-> [exists |-> FALSE, vals |-> [o \in PrimOffsets |-> 0]]]
NoGroups == [n \in GroupNames |-> [exists |-> FALSE, members |-> {}]]

\* Where the points and the primitives of the geometries lie in space.
PointLayout == [o \in Offsets |-> <<MaxOffsets - o, o % 2, 0>>]
PrimLayout == [o \in PrimOffsets |-> <<o % 2, MaxPrims - o, 0>>]

\* The index map of a geometry built by adding n elements: number = offset.
FreshMap(n) == [i \in 1 .. n |-> i - 1]

NoCall == [op |-> "none", self |-> "A", args |-> <<>>, raised |-> "None",
           native |-> <<>>, result |-> None]

\* The caller has taken the outcome of the call and goes on.
Returned ==
    /\ ~Idle
    /\ call' = NoCall
    /\ UNCHANGED geoVars

Axes == -1 .. 3
ShiftOffsets ==
    {PyInt(k) : k \in (0 - MaxOffsets - 1) .. (MaxOffsets + 1)}
        \cup {PyBool(TRUE), PyFloat(1), PyLong(1), PyStr(1), None}
Seeds == {PyFloat(0), PyInt(1), PyStr(0)}
\* Lists of numbers of every length up to one more than the number of elements.
ValueLists ==
    {[i \in 1 .. n |-> (i + k) % 2] : n \in 0 .. (MaxOffsets + 1), k \in {0, 1}}
        \cup {[i \in 1 .. n |-> IF i = 1 THEN 1 ELSE 0] : n \in 0 .. (MaxOffsets + 1)}
\* The geometries the reordering functions are called on.
SortGeos == {"A"}
Positions == {<<0, 0, 0>>, <<MaxOffsets, 1, 0>>}

\* Geometry A holds any number of points and primitives, B is empty.
InitSort ==
    /\ \E n \in 0 .. MaxOffsets : points = [g \in Geos |-> IF g = "A" THEN FreshMap(n) ELSE <<>>]
    /\ \E n \in 0 .. MaxPrims : prims = [g \in Geos |-> IF g = "A" THEN FreshMap(n) ELSE <<>>]
    /\ pos = [g \in Geos |-> PointLayout]
    /\ prPos = [g \in Geos |-> PrimLayout]
    /\ ptAttribs = [g \in Geos |-> NoAttribs]
    /\ prAttribs = [g \in Geos |-> NoPrimAttribs]
    /\ ptGroups = [g \in Geos |-> NoGroups]
    /\ prGroups = [g \in Geos |-> NoGroups]
    /\ call = NoCall

DoSortAlongAxis ==
    /\ Idle
    /\ \E self \in SortGeos, gt \in GeometryTypes, axis \in Axes : sortAlongAxis(self, gt, axis)

DoSortByValues ==
    /\ Idle
    /\ \E self \in SortGeos, gt \in GeometryTypes, values \in ValueLists :
        sortByValues(self, gt, values)

DoSortRandomly ==
    /\ Idle
    /\ \E self \in SortGeos, gt \in GeometryTypes, seed \in Seeds : sortRandomly(self, gt, seed)

DoShiftElements ==
    /\ Idle
    /\ \E self \in SortGeos, gt \in GeometryTypes, offset \in ShiftOffsets :
        shiftElements(self, gt, offset)

DoReverseSort ==
    /\ Idle
    /\ \E self \in SortGeos, gt \in GeometryTypes : reverseSort(self, gt)

DoSortByProximityToPosition ==
    /\ Idle
    /\ \E self \in SortGeos, gt \in GeometryTypes, position \in Positions :
        sortByProximityToPosition(self, gt, position)

NextSort ==
    \/ DoSortAlongAxis
    \/ DoSortByValues
    \/ DoSortRandomly
    \/ DoShiftElements
    \/ DoReverseSort
    \/ DoSortByProximityToPosition
    \/ Returned

SpecSort == InitSort /\ [][NextSort]_vars

----------------------------------------------------------------------------
(* Properties of the reordering functions, checked under SpecSort          *)

\* The step is a call of one of the functions named in ops.
Called(ops) == call'.op \in ops

\* The element that had number i in old has number f(i) in new.
Renumbered(old, new, f(_)) ==
    /\ Len(new) = Len(old)
    /\ \A i \in 0 .. (Len(old) - 1) : OffsetOf(new, f(i)) = old[i + 1]

\* C4: sortAlongAxis raises ValueError exactly when axis is not 0, 1 or 2, and
\* then, whatever geometry_type is, no native function is called and neither
\* the point order nor the primitive order changes.
C4_AxisCheckedFirst ==
    [][Called({"sortAlongAxis"}) =>
        /\ (call'.raised = "ValueError") <=> (call'.args.axis \notin {0, 1, 2})
        /\ call'.args.axis \notin {0, 1, 2} =>
            /\ call'.native = <<>>
            /\ points' = points
            /\ prims' = prims]_vars

\* C4 witness: an invalid axis given together with an invalid geometry type.
C4_Witness ==
    /\ call.op = "sortAlongAxis"
    /\ call.args.axis = 3
    /\ call.args.geometry_type = "Vertices"
    /\ call.raised = "ValueError"

SortOps ==
    {"sortAlongAxis", "sortByValues", "sortRandomly", "shiftElements",
     "reverseSort", "sortByProximityToPosition"}

\* The arguments other than geometry_type are ones the function accepts.
OtherArgsValid(c) ==
    /\ c.op = "sortAlongAxis" => c.args.axis \in {0, 1, 2}
    /\ c.op = "sortRandomly" => c.args.seed.type \in {"float", "int", "bool"}
    /\ c.op = "shiftElements" => c.args.offset.type \in {"int", "bool"}

\* C5: each of the six reordering functions raises hou.OperationFailed when
\* geometry_type is neither Points nor Primitives, and then changes neither
\* order; with Points the primitive order is unchanged and with Primitives the
\* point order is unchanged.
C5_GeometryTypeDispatch ==
    [][Called(SortOps) /\ OtherArgsValid(call') =>
        /\ call'.args.geometry_type \notin {"Points", "Primitives"} =>
            /\ call'.raised = "OperationFailed"
            /\ points' = points
            /\ prims' = prims
        /\ call'.args.geometry_type = "Points" => prims' = prims
        /\ call'.args.geometry_type = "Primitives" => points' = points]_vars

\* C5 witness: a call with geometry type Vertices failed on a geometry whose
\* points and primitives earlier calls had reordered.
C5_Witness ==
    /\ call.op = "reverseSort"
    /\ call.args.geometry_type = "Vertices"
    /\ call.raised = "OperationFailed"
    /\ points["A"] # FreshMap(Len(points["A"]))
    /\ prims["A"] # FreshMap(Len(prims["A"]))

\* C6: sortByValues raises hou.OperationFailed whenever the length of values
\* differs from the number of elements of the chosen class, and the native
\* sort is reached only with a list that has one value per element.
C6_ValuesLengthChecked ==
    [][Called({"sortByValues"}) =>
        /\ call'.args.geometry_type = "Points" =>
            /\ Len(call'.args.values) # Len(points[call'.self]) =>
                call'.raised = "OperationFailed"
            /\ call'.native # <<>> => Len(call'.args.values) = Len(points[call'.self])
        /\ call'.args.geometry_type = "Primitives" =>
            /\ Len(call'.args.values) # Len(prims[call'.self]) =>
                call'.raised = "OperationFailed"
            /\ call'.native # <<>> => Len(call'.args.values) = Len(prims[call'.self])
        /\ call'.native # <<>> =>
            call'.args.geometry_type \in {"Points", "Primitives"}]_vars

\* C6 witness: a list one shorter than the number of points was rejected
\* after a list of the right length had reordered the points.
C6_Witness ==
    /\ call.op = "sortByValues"
    /\ call.args.geometry_type = "Points"
    /\ call.raised = "OperationFailed"
    /\ call.native = <<>>
    /\ Len(points["A"]) = MaxOffsets
    /\ Len(call.args.values) = MaxOffsets - 1
    /\ points["A"] # FreshMap(MaxOffsets)

\* C7: shiftElements with an offset of type int gives the element formerly
\* numbered i the number (i + offset) mod n; an offset that is no int raises
\* TypeError and leaves both orders unchanged.
C7_ShiftRenumbers ==
    [][Called({"shiftElements"}) =>
        LET offset == call'.args.offset
            self == call'.self
            Shifted(n) == [i \in 0 .. (n - 1) |-> (i + offset.val) % n]
        IN  /\ offset.type \in {"int", "bool"} /\ call'.args.geometry_type = "Points" =>
                /\ call'.raised = "None"
                /\ Renumbered(points[self], points'[self],
                              LAMBDA i : Shifted(Len(points[self]))[i])
            /\ offset.type \in {"int", "bool"} /\ call'.args.geometry_type = "Primitives" =>
                /\ call'.raised = "None"
                /\ Renumbered(prims[self], prims'[self],
                              LAMBDA i : Shifted(Len(prims[self]))[i])
            /\ offset.type \notin {"int", "bool"} =>
                /\ call'.raised = "TypeError"
                /\ points' = points
                /\ prims' = prims]_vars

\* C7 witness: the points were shifted by more than their number, so that the
\* new numbers wrapped around.
C7_Witness ==
    /\ call.op = "shiftElements"
    /\ call.raised = "None"
    /\ call.args.geometry_type = "Points"
    /\ call.args.offset.val = MaxOffsets + 1
    /\ points["A"] = <<MaxOffsets - 1>> \o FreshMap(MaxOffsets - 1)

\* C8: reverseSort renumbers the element formerly numbered i to n - 1 - i, and
\* reversing the order it leaves gives back the order it started from.
C8_ReverseRenumbers ==
    [][Called({"reverseSort"}) /\ call'.raised = "None" =>
        LET self == call'.self IN
        /\ call'.args.geometry_type = "Points" =>
            /\ Renumbered(points[self], points'[self],
                          LAMBDA i : Len(points[self]) - 1 - i)
            /\ reverseListOrder(points'[self]) = {points[self]}
        /\ call'.args.geometry_type = "Primitives" =>
            /\ Renumbered(prims[self], prims'[self],
                          LAMBDA i : Len(prims[self]) - 1 - i)
            /\ reverseListOrder(prims'[self]) = {prims[self]}]_vars

\* C8 witness: the points of a geometry with the most points were reversed.
C8_Witness ==
    /\ call.op = "reverseSort"
    /\ call.raised = "None"
    /\ call.args.geometry_type = "Points"
    /\ points["A"] = [j \in 1 .. MaxOffsets |-> MaxOffsets - j]

----------------------------------------------------------------------------
(* Creating points: specification and properties                           *)

\* Geometry A holds points at any offsets in any order (points have been
\* deleted and reordered), B is empty.
InitCreate ==
    /\ \E m \in IndexMaps : points = [g \in Geos |-> IF g = "A" THEN m ELSE <<>>]
    /\ prims = [g \in Geos |-> <<>>]
    /\ pos = [g \in Geos |-> PointLayout]
    /\ prPos = [g \in Geos |-> PrimLayout]
    /\ ptAttribs = [g \in Geos |-> NoAttribs]
    /\ prAttribs = [g \in Geos |-> NoPrimAttribs]
    /\ ptGroups = [g \in Geos |-> NoGroups]
    /\ prGroups = [g \in Geos |-> NoGroups]
    /\ call = NoCall

Counts == -1 .. MaxOffsets

\* The geometries points are created in.
CreateGeos == {"A"}

DoCreatePoints ==
    /\ Idle
    /\ \E self \in CreateGeos, count \in Counts : createPoints(self, count)

\* hou.Vector3 arguments, and None given in the place of one.
PyVector3(v) == [type |-> "Vector3", val |-> v]
NoVector3 == [type |-> "NoneType", val |-> <<0, 0, 0>>]

DoCreatePoint ==
    /\ Idle
    /\ \E self \in CreateGeos, position \in {PyVector3(<<MaxOffsets, 1, 0>>), NoVector3} :
        createPoint(self, position)

NextCreate ==
    \/ DoCreatePoints
    \/ DoCreatePoint
    \/ Returned

SpecCreate == InitCreate /\ [][NextCreate]_vars

\* C2: createPoints(count) with count > 0 returns count pairwise distinct
\* points, each created by this call; the number of points grows by count and
\* every point that existed keeps its number.
C2_CreatePointsReturnsNew ==
    [][Called({"createPoints"}) /\ call'.args.count > 0 =>
        LET self == call'.self
            result == call'.result
            count == call'.args.count
        IN  /\ call'.raised = "None"
            /\ Len(result) = count
            /\ IsInjective(result)
            /\ \A i \in 1 .. Len(result) :
                /\ OffsetOf(points'[self], result[i]) # NoOffset
                /\ OffsetOf(points'[self], result[i]) \notin Range(points[self])
            /\ Len(points'[self]) = Len(points[self]) + count
            /\ \A i \in 1 .. Len(points[self]) : points'[self][i] = points[self][i]]_vars

\* C2 witness: two points were created in a geometry that held one point at
\* an offset other than 0.
C2_Witness ==
    /\ call.op = "createPoints"
    /\ call.args.count = 2
    /\ call.raised = "None"
    /\ Len(call.result) = 2
    /\ Len(points[call.self]) = 3
    /\ points[call.self][1] # 0

\* C3: createPoints(count) raises hou.OperationFailed whenever count is not
\* greater than 0, and then adds no point and calls no native function.
C3_CreatePointsRejectsCount ==
    [][Called({"createPoints"}) /\ call'.args.count <= 0 =>
        /\ call'.raised = "OperationFailed"
        /\ call'.native = <<>>
        /\ points' = points]_vars

\* C3 witness: a count of 0 was rejected on a geometry that holds points.
C3_Witness ==
    /\ call.op = "createPoints"
    /\ call.args.count = 0
    /\ call.raised = "OperationFailed"
    /\ Len(points[call.self]) > 0

----------------------------------------------------------------------------
(* Copying attribute values: specification and properties                  *)

\* A list in the order opposite to that of list.
Reversed(list) == [j \in 1 .. Len(list) |-> list[Len(list) + 1 - j]]

\* An attribute with the given value on every element.
Filled(offsets, v) == [exists |-> TRUE, vals |-> [o \in offsets |-> v]]

\* Geometry A holds all its elements in the order they were added, B holds
\* as many or one fewer, in that order or reversed.  A carries attribute "a",
\* with value 1 on every element, on its points or on its primitives; B
\* carries it with value 0 or not at all.
InitCopy ==
    /\ \/ points = [g \in Geos |->
              IF g = "A" THEN FreshMap(MaxOffsets) ELSE Reversed(FreshMap(MaxOffsets))]
       \/ points = [g \in Geos |-> FreshMap(MaxOffsets)]
       \/ points = [g \in Geos |->
              IF g = "A" THEN FreshMap(MaxOffsets) ELSE FreshMap(MaxOffsets - 1)]
    /\ \/ prims = [g \in Geos |->
              IF g = "A" THEN FreshMap(MaxPrims) ELSE Reversed(FreshMap(MaxPrims))]
       \/ prims = [g \in Geos |-> FreshMap(MaxPrims)]
       \/ prims = [g \in Geos |->
              IF g = "A" THEN FreshMap(MaxPrims) ELSE FreshMap(MaxPrims - 1)]
    /\ pos = [g \in Geos |-> PointLayout]
    /\ prPos = [g \in Geos |-> PrimLayout]
    /\ \E onPoints, onB \in BOOLEAN :
        /\ ptAttribs = [g \in Geos |->
              IF onPoints /\ g = "A" THEN [NoAttribs EXCEPT !["a"] = Filled(Offsets, 1)]
              ELSE IF onPoints /\ onB THEN [NoAttribs EXCEPT !["a"] = Filled(Offsets, 0)]
              ELSE NoAttribs]
        /\ prAttribs = [g \in Geos |->
              IF ~onPoints /\ g = "A"
              THEN [NoPrimAttribs EXCEPT !["a"] = Filled(PrimOffsets, 1)]
              ELSE IF ~onPoints /\ onB
              THEN [NoPrimAttribs EXCEPT !["a"] = Filled(PrimOffsets, 0)]
              ELSE NoPrimAttribs]
    /\ ptGroups = [g \in Geos |-> NoGroups]
    /\ prGroups = [g \in Geos |-> NoGroups]
    /\ call = NoCall

\* The hou.Point and hou.Prim objects of the geometries.
PointsOf(g) == {Element(g, i) : i \in 0 .. (Len(points[g]) - 1)}
PrimsOf(g) == {Element(g, i) : i \in 0 .. (Len(prims[g]) - 1)}
AllPoints == UNION {PointsOf(g) : g \in Geos}
AllPrims == UNION {PrimsOf(g) : g \in Geos}

\* The attributes a geometry can carry.
AllAttribs ==
    {Attrib(g, "Point", n) : g \in Geos, n \in AttribNames}
        \cup {Attrib(g, "Prim", n) : g \in Geos, n \in AttribNames}

\* The hou.Attrib objects of the geometries.
ExistingAttribs ==
    {x \in AllAttribs :
        IF x.type = "Point" THEN ptAttribs[x.geo][x.name].exists
        ELSE prAttribs[x.geo][x.name].exists}

\* The lists of at most two attributes.
AttribLists ==
    {<<>>} \cup {<<x>> : x \in ExistingAttribs}
        \cup {<<x, y>> : x, y \in ExistingAttribs}

DoCopyPointAttributeValues ==
    /\ Idle
    /\ \E self \in AllPoints, source_point \in AllPoints, attributes \in AttribLists :
        copyPointAttributeValues(self, source_point, attributes)

DoCopyPrimAttributeValues ==
    /\ Idle
    /\ \E self \in AllPrims, source_prim \in AllPrims, attributes \in AttribLists :
        copyPrimAttributeValues(self, source_prim, attributes)

NextCopy ==
    \/ DoCopyPointAttributeValues
    \/ DoCopyPrimAttributeValues
    \/ Returned

SpecCopy == InitCopy /\ [][NextCopy]_vars

\* The value of attribute name that the element holds, in the table attribs
\* of attribute tables and the index maps lists.
ValueOf(attribs, lists, element, name) ==
    attribs[element.geo][name].vals[OffsetOf(lists[element.geo], element.num)]

\* The attributes of the list that are attributes of the given type on the
\* geometry of the source element.
CopiedAttribs(attributes, type, source) ==
    {attributes[i].name : i \in
        {k \in 1 .. Len(attributes) :
            attributes[k].type = type /\ attributes[k].geo = source.geo}}

\* C1: after dest.copyAttributeValues(src, attrs) has returned, for every
\* attribute of attrs that is an attribute of the matching class on the source
\* geometry, dest has the attribute and holds the value that src holds, for
\* points and for primitives, within one geometry and across two.
C1_CopiedValuesEqual ==
    /\ call.op = "copyPointAttributeValues" =>
        \A n \in CopiedAttribs(call.args.attributes, "Point", call.args.source) :
            /\ ptAttribs[call.self.geo][n].exists
            /\ ValueOf(ptAttribs, points, call.self, n)
                = ValueOf(ptAttribs, points, call.args.source, n)
    /\ call.op = "copyPrimAttributeValues" =>
        \A n \in CopiedAttribs(call.args.attributes, "Prim", call.args.source) :
            /\ prAttribs[call.self.geo][n].exists
            /\ ValueOf(prAttribs, prims, call.self, n)
                = ValueOf(prAttribs, prims, call.args.source, n)

----------------------------------------------------------------------------
(* Group membership: specification and properties                          *)

\* An empty group.
EmptyGroup == [exists |-> TRUE, members |-> {}]

\* Geometry A holds all its points, reversed, or has lost the point at offset
\* 1; it holds all its primitives, reversed.  Geometry B holds one point and
\* one primitive fewer, in the order they were added.  A has the point groups
\* "g" and "h" and the primitive group "g", B the point group "g"; no group
\* has a member.
InitGroup ==
    /\ \E m \in {Reversed(FreshMap(MaxOffsets)),
                 SelectSeq(FreshMap(MaxOffsets), LAMBDA o : o # 1)} :
            points = [g \in Geos |-> IF g = "A" THEN m ELSE FreshMap(MaxOffsets - 1)]
    /\ prims = [g \in Geos |->
            IF g = "A" THEN Reversed(FreshMap(MaxPrims)) ELSE FreshMap(MaxPrims - 1)]
    /\ pos = [g \in Geos |-> PointLayout]
    /\ prPos = [g \in Geos |-> PrimLayout]
    /\ ptAttribs = [g \in Geos |-> NoAttribs]
    /\ prAttribs = [g \in Geos |-> NoPrimAttribs]
    /\ ptGroups = [g \in Geos |->
            IF g = "A" THEN [n \in GroupNames |-> EmptyGroup]
            ELSE [NoGroups EXCEPT !["g"] = EmptyGroup]]
    /\ prGroups = [g \in Geos |->
            IF g = "A" THEN [NoGroups EXCEPT !["g"] = EmptyGroup] ELSE NoGroups]
    /\ call = NoCall

\* The hou.PointGroup and hou.PrimGroup objects of the geometries.
PointGroups ==
    {x \in {Group(g, "Point", n) : g \in Geos, n \in GroupNames} :
        ptGroups[x.geo][x.name].exists}
PrimGroups ==
    {x \in {Group(g, "Prim", n) : g \in Geos, n \in GroupNames} :
        prGroups[x.geo][x.name].exists}

DoTogglePoint ==
    /\ Idle
    /\ \E self \in PointGroups, point \in AllPoints : togglePoint(self, point)

DoTogglePrim ==
    /\ Idle
    /\ \E self \in PrimGroups, prim \in AllPrims : togglePrim(self, prim)

DoToggleEntries ==
    /\ Idle
    /\ \E self \in PointGroups \cup PrimGroups : toggleEntries(self)

NextGroup ==
    \/ DoTogglePoint
    \/ DoTogglePrim
    \/ DoToggleEntries
    \/ Returned

SpecGroup == InitGroup /\ [][NextGroup]_vars

\* The members, by offset, of a group in the given group tables.
Members(ptTable, prTable, group) ==
    IF group.type = "Prim" THEN prTable[group.geo][group.name].members
    ELSE ptTable[group.geo][group.name].members

\* Every group other than the given one has the members it had.
OtherGroupsUnchanged(group) ==
    \A g \in Geos, n \in GroupNames :
        /\ Group(g, "Point", n) # group => ptGroups'[g][n] = ptGroups[g][n]
        /\ Group(g, "Prim", n) # group => prGroups'[g][n] = prGroups[g][n]

\* C9: PointGroup.toggle(point) and PrimGroup.toggle(prim), given an element
\* of the group's geometry, flip the membership of that element in that
\* group and change the membership of no other element and of no other group.
C9_ToggleFlipsOne ==
    [][/\ Called({"togglePoint"}) /\ call'.args.point.geo = call'.self.geo =>
            LET self == call'.self
                elem == OffsetOf(points[self.geo], call'.args.point.num)
                old == Members(ptGroups, prGroups, self)
                new == Members(ptGroups', prGroups', self)
            IN  /\ elem \in new <=> elem \notin old
                /\ new \ {elem} = old \ {elem}
                /\ OtherGroupsUnchanged(self)
       /\ Called({"togglePrim"}) /\ call'.args.prim.geo = call'.self.geo =>
            LET self == call'.self
                elem == OffsetOf(prims[self.geo], call'.args.prim.num)
                old == Members(ptGroups, prGroups, self)
                new == Members(ptGroups', prGroups', self)
            IN  /\ elem \in new <=> elem \notin old
                /\ new \ {elem} = old \ {elem}
                /\ OtherGroupsUnchanged(self)]_vars

\* C9 witness: point 0 of geometry A, which is not at offset 0, was toggled
\* out of a group that keeps another member.
C9_Witness ==
    /\ call.op = "togglePoint"
    /\ call.self = Group("A", "Point", "g")
    /\ call.args.point = Element("A", 0)
    /\ points["A"][1] # 0
    /\ points["A"][1] \notin ptGroups["A"]["g"].members
    /\ ptGroups["A"]["g"].members # {}

\* C10: toggleEntries replaces the membership of the group by its complement
\* within the elements of the group's class in its geometry, and changes no
\* other group.
C10_ToggleEntriesComplements ==
    [][Called({"toggleEntries"}) =>
        LET self == call'.self
            elements == IF self.type = "Prim" THEN Range(prims[self.geo])
                        ELSE Range(points[self.geo])
        IN  /\ Members(ptGroups', prGroups', self)
                = elements \ Members(ptGroups, prGroups, self)
            /\ OtherGroupsUnchanged(self)]_vars

\* C10 witness: the entries of a point group with one member were toggled in
\* a geometry that has lost a point: the group holds the other points.
C10_Witness ==
    /\ call.op = "toggleEntries"
    /\ call.self = Group("A", "Point", "g")
    /\ Len(points["A"]) = MaxOffsets - 1
    /\ Cardinality(ptGroups["A"]["g"].members) = MaxOffsets - 2

----------------------------------------------------------------------------
(* Copying groups: specification and properties                            *)

\* A group holding the given elements.
GroupOf(members) == [exists |-> TRUE, members |-> members]

\* Geometry A holds all its points, reversed, or has lost the point at offset
\* 1, and all its primitives, reversed.  Its point group "g" and its
\* primitive group "g" hold any of its elements; its point group "h" may
\* exist, with any members, and its primitive group "h" does not.  Geometry B
\* has one point group "h" that holds all of its points.
InitGroupCopy ==
    /\ \E m \in {Reversed(FreshMap(MaxOffsets)),
                 SelectSeq(FreshMap(MaxOffsets), LAMBDA o : o # 1)} :
            points = [g \in Geos |-> IF g = "A" THEN m ELSE FreshMap(MaxOffsets - 1)]
    /\ prims = [g \in Geos |->
            IF g = "A" THEN Reversed(FreshMap(MaxPrims)) ELSE FreshMap(MaxPrims - 1)]
    /\ pos = [g \in Geos |-> PointLayout]
    /\ prPos = [g \in Geos |-> PrimLayout]
    /\ ptAttribs = [g \in Geos |-> NoAttribs]
    /\ prAttribs = [g \in Geos |-> NoPrimAttribs]
    /\ \E mg \in SUBSET Range(points["A"]) :
        \E h \in {NoGroups["h"]} \cup {GroupOf(mh) : mh \in SUBSET Range(points["A"])} :
            ptGroups = [g \in Geos |->
                IF g = "A" THEN [NoGroups EXCEPT !["g"] = GroupOf(mg), !["h"] = h]
                ELSE [NoGroups EXCEPT !["h"] = GroupOf(Range(points["B"]))]]
    /\ \E mg \in SUBSET Range(prims["A"]) :
            prGroups = [g \in Geos |->
                IF g = "A" THEN [NoGroups EXCEPT !["g"] = GroupOf(mg)] ELSE NoGroups]
    /\ call = NoCall

DoCopyGroup ==
    /\ Idle
    /\ \E self \in PointGroups \cup PrimGroups, new_group_name \in GroupNames :
            copyGroup(self, new_group_name)

NextGroupCopy ==
    \/ DoCopyGroup
    \/ DoToggleEntries
    \/ Returned

SpecGroupCopy == InitGroupCopy /\ [][NextGroupCopy]_vars

\* Whether a group exists in the given group tables.
Exists(ptTable, prTable, group) ==
    IF group.type = "Prim" THEN prTable[group.geo][group.name].exists
    ELSE ptTable[group.geo][group.name].exists

\* C11: a group.copy(new_group_name) that raises nothing leaves a group of
\* the class and the geometry of the source group under the new name, which
\* did not exist before and has the members the source group had, and leaves
\* the source group with the members it had.
C11_CopyGroupCopiesMembership ==
    [][Called({"copyGroup"}) /\ call'.raised = "None" =>
        LET self == call'.self
            copy == Group(self.geo, self.type, call'.args.new_group_name)
        IN  /\ copy # self
            /\ ~Exists(ptGroups, prGroups, copy)
            /\ Exists(ptGroups', prGroups', copy)
            /\ Members(ptGroups', prGroups', copy) = Members(ptGroups, prGroups, self)
            /\ Exists(ptGroups', prGroups', self)
            /\ Members(ptGroups', prGroups', self) = Members(ptGroups, prGroups, self)]_vars

\* C11 witness: the primitive group "g" of geometry A, which has a member and
\* lacks one, was copied to "h" while a point group "h" was there.
C11_Witness ==
    /\ call.op = "copyGroup"
    /\ call.raised = "None"
    /\ call.self = Group("A", "Prim", "g")
    /\ call.args.new_group_name = "h"
    /\ ptGroups["A"]["h"].exists
    /\ prGroups["A"]["g"].members # {}
    /\ prGroups["A"]["g"].members # Range(prims["A"])
    /\ prGroups["A"]["h"].members = prGroups["A"]["g"].members

----------------------------------------------------------------------------
(* Setting a string attribute to one value: specification and properties   *)

\* An attribute of a data type that holds v on every offset.
TypedAttrib(dataType, offsets, v) ==
    [exists |-> TRUE, vals |-> [o \in offsets |-> v], dataType |-> dataType]

\* No attribute of the name.
NoTypedAttrib(offsets) ==
    [exists |-> FALSE, vals |-> [o \in offsets |-> 0], dataType |-> "None"]

\* The strings attributes are set to.
StringValues == {"x", "y"}

\* Geometry A holds all its points, reversed, or has lost the point at offset
\* 1, and all its primitives, reversed.  It has the point attributes "a", of
\* strings, and "b", of floats, the primitive attribute "b", of strings, the
\* point group "g" of its point 0 and the empty primitive group "g".
\* Geometry B has the point attribute "b", of strings, the point group "h" of
\* its points and no primitive attribute.
InitShared ==
    /\ \E m \in {Reversed(FreshMap(MaxOffsets)),
                 SelectSeq(FreshMap(MaxOffsets), LAMBDA o : o # 1)} :
            points = [g \in Geos |-> IF g = "A" THEN m ELSE FreshMap(MaxOffsets - 1)]
    /\ prims = [g \in Geos |->
            IF g = "A" THEN Reversed(FreshMap(MaxPrims)) ELSE FreshMap(MaxPrims - 1)]
    /\ pos = [g \in Geos |-> PointLayout]
    /\ prPos = [g \in Geos |-> PrimLayout]
    /\ ptAttribs = [g \in Geos |->
            IF g = "A"
            THEN [n \in AttribNames |->
                    IF n = "a" THEN TypedAttrib("String", Offsets, "")
                    ELSE TypedAttrib("Float", Offsets, 0)]
            ELSE [n \in AttribNames |->
                    IF n = "b" THEN TypedAttrib("String", Offsets, "")
                    ELSE NoTypedAttrib(Offsets)]]
    /\ prAttribs = [g \in Geos |->
            IF g = "A"
            THEN [n \in AttribNames |->
                    IF n = "b" THEN TypedAttrib("String", PrimOffsets, "")
                    ELSE NoTypedAttrib(PrimOffsets)]
            ELSE [n \in AttribNames |-> NoTypedAttrib(PrimOffsets)]]
    /\ ptGroups = [g \in Geos |->
            IF g = "A" THEN [NoGroups EXCEPT !["g"] = GroupOf({points["A"][1]})]
            ELSE [NoGroups EXCEPT !["h"] = GroupOf(Range(points["B"]))]]
    /\ prGroups = [g \in Geos |->
            IF g = "A" THEN [NoGroups EXCEPT !["g"] = EmptyGroup] ELSE NoGroups]
    /\ call = NoCall

\* The group arguments: no group, or a group object.
GroupArgs == {None} \cup PointGroups \cup PrimGroups

DoSetSharedPointStringAttrib ==
    /\ Idle
    /\ \E self \in Geos, attribute \in ExistingAttribs, value \in StringValues,
          group \in GroupArgs :
            setSharedPointStringAttrib(self, attribute, value, group)

DoSetSharedPrimStringAttrib ==
    /\ Idle
    /\ \E self \in Geos, attribute \in ExistingAttribs, value \in StringValues,
          group \in GroupArgs :
            setSharedPrimStringAttrib(self, attribute, value, group)

NextShared ==
    \/ DoSetSharedPointStringAttrib
    \/ DoSetSharedPrimStringAttrib
    \/ Returned

SpecShared == InitShared /\ [][NextShared]_vars

\* C12: setSharedPointStringAttrib and setSharedPrimStringAttrib raise
\* hou.OperationFailed exactly when the native function returned 1; the
\* native function returns 1 exactly when the geometry has no attribute of
\* strings under the attribute's name on points (for the point function) or
\* on primitives (for the primitive function); and when it returns 1 no
\* attribute value of any geometry has changed.
C12_SentinelRaises ==
    [][Called({"setSharedPointStringAttrib", "setSharedPrimStringAttrib"}) =>
        LET table == IF call'.op = "setSharedPointStringAttrib"
                     THEN ptAttribs[call'.self] ELSE prAttribs[call'.self]
            name == call'.args.attribute.name
            isString == table[name].exists /\ table[name].dataType = "String"
        IN  /\ call'.native = <<call'.op>>
            /\ call'.raised = "OperationFailed" <=> call'.sentinel = 1
            /\ call'.raised \in {"OperationFailed", "None"}
            /\ call'.sentinel = 1 <=> ~isString
            /\ call'.sentinel = 1 => ptAttribs' = ptAttribs /\ prAttribs' = prAttribs]_vars

\* C12 witness: after a string was stored on points of geometry A, the point
\* function was given A's primitive attribute "b", of strings, whose name on
\* points is an attribute of floats, and raised.
C12_Witness ==
    /\ call.op = "setSharedPointStringAttrib"
    /\ call.self = "A"
    /\ call.args.attribute = Attrib("A", "Prim", "b")
    /\ call.raised = "OperationFailed"
    /\ call.sentinel = 1
    /\ ptAttribs["A"]["b"].dataType = "Float"
    /\ \E o \in Offsets : ptAttribs["A"]["a"].vals[o] = "x"

----------------------------------------------------------------------------
(* The functions and their native calls: specification and properties      *)

\* Geometry A holds all its points but one or two, and all its primitives,
\* reversed; it has no attribute and no group.  Geometry B holds one point,
\* the point attribute "a", of strings, and the point group "g" of its point.
InitCalls ==
    /\ \E n \in {MaxOffsets - 2, MaxOffsets - 1} :
            points = [g \in Geos |-> IF g = "A" THEN FreshMap(n) ELSE FreshMap(1)]
    /\ prims = [g \in Geos |-> IF g = "A" THEN Reversed(FreshMap(MaxPrims)) ELSE <<>>]
    /\ pos = [g \in Geos |-> PointLayout]
    /\ prPos = [g \in Geos |-> PrimLayout]
    /\ ptAttribs = [g \in Geos |->
            IF g = "B"
            THEN [n \in AttribNames |->
                    IF n = "a" THEN TypedAttrib("String", Offsets, "")
                    ELSE NoTypedAttrib(Offsets)]
            ELSE [n \in AttribNames |-> NoTypedAttrib(Offsets)]]
    /\ prAttribs = [g \in Geos |-> [n \in AttribNames |-> NoTypedAttrib(PrimOffsets)]]
    /\ ptGroups = [g \in Geos |->
            IF g = "B" THEN [NoGroups EXCEPT !["g"] = GroupOf({0})] ELSE NoGroups]
    /\ prGroups = [g \in Geos |-> NoGroups]
    /\ call = NoCall

\* Parameters: a float parameter, a folder of tabs, and multiparms of up to
\* two blocks of up to two parameters.
Parms ==
    {Parm("f", "None", 0, 0), Parm("t", "Tabs", 0, 0)}
        \cup {Parm("m", "MultiparmBlock", i, j) : i \in 0 .. 2, j \in 0 .. 2}
        \cup {Parm("s", "ScrollingMultiparmBlock", 1, 1), Parm("b", "TabbedMultiparmBlock", 2, 1)}

\* Vectors.
Vectors == {<<0, 0, 0>>, <<1, 0, 0>>, <<1, 2, 0>>, <<0, -1, 1>>}

DoGetMultiParmInstances ==
    /\ Idle
    /\ \E self \in Parms : getMultiParmInstances(self)

DoGetMultiParmInstanceValues ==
    /\ Idle
    /\ \E self \in Parms : getMultiParmInstanceValues(self)

DoComponentAlong ==
    /\ Idle
    /\ \E self \in Vectors, vector \in Vectors : componentAlong(self, vector)

DoProject ==
    /\ Idle
    /\ \E self \in Vectors, vector \in Vectors : project(self, vector)

NextCalls ==
    \/ DoProject
    \/ DoComponentAlong
    \/ DoGetMultiParmInstanceValues
    \/ DoGetMultiParmInstances
    \/ DoSortAlongAxis
    \/ DoCreatePoints
    \/ DoToggleEntries
    \/ DoCopyGroup
    \/ DoSetSharedPointStringAttrib
    \/ DoSetSharedPrimStringAttrib
    \/ Returned

SpecCalls == InitCalls /\ [][NextCalls]_vars

\* The functions that call no function of the compiled library.
ScriptingOnly == {"componentAlong", "project"}

\* The functions that raise on the value their native function returned.
SentinelChecked == {"setSharedPointStringAttrib", "setSharedPrimStringAttrib"}

\* A function was called.
CalledAny == call'.op # "none" /\ call.op = "none"

====
